---- MODULE Spec2Model ----
(***************************************************************************)
(* Bulk-analysis job tracking and result reconciliation of the resume      *)
(* scanner front end (frontend/src/components/EnhancedDashboard.jsx and    *)
(* the history page, HistoryAnalytics).                                    *)
(*                                                                         *)
(* The record store is the localStorage key "recentAnalyses": a JSON list  *)
(* of analysis records, read and written whole by every handler.  Every    *)
(* handler runs to its next await on one JavaScript thread, so each action *)
(* below is one such run: a click handler, a timer callback, or the        *)
(* continuation of an awaited fetch.                                       *)
(*                                                                         *)
(* Not modelled: rendering, the opaque analysis payload (fullAnalysis and  *)
(* the other carried blobs), display names, and wall-clock timestamps      *)
(* (the history page's "older than 10 minutes" test is a choice of how     *)
(* many of the oldest jobs have aged).  The field uid of a record is a     *)
(* history field: the id the record was created with, which names it       *)
(* across the id rewrite of line 700.                                      *)
(***************************************************************************)
EXTENDS Integers, Sequences, FiniteSets, TLC

VARIABLES
    store,      \* localStorage["recentAnalyses"], most recent first
    upload,     \* handleUpload between its fetch and the response
    pollers,    \* one entry per call of pollBulkJobStatus
    rechecks,   \* status fetches of loadRecentAnalyses still in flight
    nextJob,    \* the next job_id the backend hands out
    clock,      \* Date.now() of the next single-file save
    deletes,    \* number of user deletions so far
    seenDone,   \* history: uids of records once stored as completed
    derived     \* the last call of extractNameFromFilename: argument, result

vars == <<store, upload, pollers, rechecks, nextJob, clock,
          deletes, seenDone, derived>>

----------------------------------------------------------------------------
(* Program constants *)

StoreCap == 10
ViewSize == 3
maxAttempts == 80
pollInterval == 15000
firstPollDelay == 20000
backoffBase == 30000
backoffCap == 300000

(* Bounds of the model *)

MaxPolls == 2        \* status fetches sent, over all pollers
MaxPollsCap == 1     \* the same, on the page with the full store
MaxPollsDeep == 6    \* the same, for one poller followed alone
MaxPollsLate == 3    \* attempts one poller has left when followed late
MaxPollsJobs == 2    \* status fetches sent, over the pollers of two jobs

Jobs == {1}          \* job_id values the backend hands out (one bulk job)
SaveTimes == {1}     \* Date.now() of the single-file saves (one save)
PollerSlots == {1, 2}   \* calls of pollBulkJobStatus
RecheckSlots == {1, 2}  \* status fetches of the effect in flight, per job
DeleteBudget == {0}     \* deletions made before one more is explored

----------------------------------------------------------------------------
(* Values *)

NoJob == 0           \* a record without jobId (single-file analysis)

FileNames == {"a.pdf", "b.pdf"}
NoName == ""         \* result.filename absent or empty (falsy)
ResultNames == FileNames \cup {NoName}
WideResultNames == ResultNames \cup {"B.pdf"}
Scores == {65, 80}
SingleScores == {80}   \* extractScore of a single analysis
JobStates == {"processing", "completed", "failed"}
\* jobStatus.status as any body can carry it: also absent or another value
WideJobStates == JobStates \cup {"queued", ""}
NoReason == ""       \* jobStatus.error_message absent or empty (falsy)
BackendReasons == {NoReason, "worker crashed"}

Min(a, b) == IF a <= b THEN a ELSE b
Take(s, n) == SubSeq(s, 1, Min(n, Len(s)))
Range(s) == {s[i] : i \in 1..Len(s)}
Pow2(n) == 2 ^ n

\* String.prototype.toLowerCase on the file names of the model
toLowerCase(n) == IF n = "B.pdf" THEN "b.pdf" ELSE n

(* Record ids.  Date.now() for a single save, `${job_id}-${index}` for a
   placeholder, `${jobId}-completed-${fileName}` for a reconciled record. *)
TsId(t) == [kind |-> "ts", job |-> NoJob, idx |-> t, name |-> ""]
PlaceholderId(j, i) == [kind |-> "ph", job |-> j, idx |-> i, name |-> ""]
CompletedId(j, f) == [kind |-> "done", job |-> j, idx |-> 0, name |-> f]

Result(f, sc) == [filename |-> f, overall_score |-> sc]
Results == {Result("a.pdf", 80), Result("a.pdf", 65), Result("b.pdf", 65), Result(NoName, 80)}
ResultLists == UNION {[1..n -> Results] : n \in 0..2}

\* responses with at most one result: the job is not through all its files
PartialResultLists == {rs \in ResultLists : Len(rs) <= 1}

Rec(i, j, f, st, sc) ==
    [uid |-> i, id |-> i, jobId |-> j, fileName |-> f, status |-> st, score |-> sc]

IsProcessingOf(a, jobId) == a.jobId = jobId /\ a.status = "processing"
IsCompletedOf(a, jobId) == a.jobId = jobId /\ a.status = "completed"

----------------------------------------------------------------------------
(* RecordStore: saveToLocalStorage, lines 149-196 *)

\* a variant that slices one past the cap
PrependOnePastCap(new, existing) == Take(new \o existing, StoreCap + 1)

\* [newAnalysis, ...existingAnalyses].slice(0, 10)
Prepend(new, existing) == Take(new \o existing, StoreCap)

\* analysisData of a single-file analysis: no jobId, no status ("completed")
saveToLocalStorage(s, t, f, sc) ==
    Prepend(<<Rec(TsId(t), NoJob, f, "completed", sc)>>, s)

----------------------------------------------------------------------------
(* ResultReconciler: the store update of one poll, lines 597-781 *)

HasMatch(results, f) == \E i \in 1..Len(results) : results[i].filename = f

\* jobStatus.results.find(result => result.filename === analysis.fileName)
matchingResult(results, f) ==
    results[CHOOSE i \in 1..Len(results) :
                /\ results[i].filename = f
                /\ \A k \in 1..(i - 1) : results[k].filename # f]

\* the object returned for a matched placeholder, lines 698-715
CompleteFromMatch(a, jobId, r) ==
    [a EXCEPT !.id = CompletedId(jobId, a.fileName),
              !.score = r.overall_score,
              !.status = "completed"]

\* a variant that takes the status of every record of the job from the
\* response: completed with a result of its name, processing without one
MapPlaceholdersFromResponse(s, jobId, results) ==
    [i \in 1..Len(s) |->
        IF s[i].jobId # jobId THEN s[i]
        ELSE IF HasMatch(results, s[i].fileName)
             THEN CompleteFromMatch(s[i], jobId, matchingResult(results, s[i].fileName))
             ELSE [s[i] EXCEPT !.status = "processing"]]

\* a variant that does not test analysis.status === "processing"
MapPlaceholdersAnyStatus(s, jobId, results) ==
    [i \in 1..Len(s) |->
        IF s[i].jobId = jobId /\ HasMatch(results, s[i].fileName)
        THEN CompleteFromMatch(s[i], jobId, matchingResult(results, s[i].fileName))
        ELSE s[i]]

\* updatedAnalyses.map(...), lines 605-719
MapPlaceholders(s, jobId, results) ==
    [i \in 1..Len(s) |->
        IF IsProcessingOf(s[i], jobId) /\ HasMatch(results, s[i].fileName)
        THEN CompleteFromMatch(s[i], jobId, matchingResult(results, s[i].fileName))
        ELSE s[i]]

\* the filter of lines 738-745
IsUnmatched(s, jobId, r) ==
    ~ \E i \in 1..Len(s) :
        /\ IsCompletedOf(s[i], jobId)
        /\ \/ s[i].fileName = r.filename
           \/ toLowerCase(s[i].fileName) = toLowerCase(r.filename)

unmatchedResults(s, jobId, results) ==
    SelectSeq(results, LAMBDA r : IsUnmatched(s, jobId, r))

HasProcessing(s, jobId) == \E i \in 1..Len(s) : IsProcessingOf(s[i], jobId)

\* a variant that does not test a.jobId === jobId
processingEntryAnyJob(s, jobId) ==
    CHOOSE i \in 1..Len(s) :
        /\ s[i].status = "processing"
        /\ \A k \in 1..(i - 1) : s[k].status # "processing"

\* updatedAnalyses.find(a => a.jobId === jobId && a.status === "processing")
processingEntry(s, jobId) ==
    CHOOSE i \in 1..Len(s) :
        /\ IsProcessingOf(s[i], jobId)
        /\ \A k \in 1..(i - 1) : ~IsProcessingOf(s[k], jobId)

\* Object.assign(processingEntry, {...}), lines 760-775
AssignForced(a, r) ==
    [a EXCEPT !.status = "completed",
              !.score = r.overall_score,
              !.fileName = IF r.filename # NoName THEN r.filename ELSE @]

\* unmatchedResults.forEach(...), lines 748-777
RECURSIVE ForceMatch(_, _, _)
ForceMatch(s, jobId, rs) ==
    IF rs = <<>> THEN s
    ELSE IF HasProcessing(s, jobId)
         THEN LET i == processingEntry(s, jobId)
              IN ForceMatch([s EXCEPT ![i] = AssignForced(s[i], Head(rs))],
                            jobId, Tail(rs))
         ELSE ForceMatch(s, jobId, Tail(rs))

\* a variant that marks the records a failed job leaves behind as failed
reconcileMarkingFailed(s, jobId, status, results) ==
    LET mapped == IF Len(results) > 0
                  THEN MapPlaceholders(s, jobId, results) ELSE s
    IN  IF status = "completed"
        THEN ForceMatch(mapped, jobId, unmatchedResults(mapped, jobId, results))
        ELSE IF status = "failed"
             THEN [i \in 1..Len(mapped) |->
                      IF IsProcessingOf(mapped[i], jobId)
                      THEN [mapped[i] EXCEPT !.status = "failed"]
                      ELSE mapped[i]]
             ELSE mapped

\* What one successful poll leaves in localStorage for a response whose
\* results field is a list.
reconcile(s, jobId, status, results) ==
    LET mapped == IF Len(results) > 0
                  THEN MapPlaceholders(s, jobId, results) ELSE s
    IN  IF status = "completed"
        THEN ForceMatch(mapped, jobId, unmatchedResults(mapped, jobId, results))
        ELSE mapped

\* a variant that removes only the placeholders still processing
removeJobProcessing(s, jobId) == SelectSeq(s, LAMBDA a : ~IsProcessingOf(a, jobId))

\* filter(analysis => analysis.jobId !== jobId), line 818
removeJob(s, jobId) == SelectSeq(s, LAMBDA a : a.jobId # jobId)

----------------------------------------------------------------------------
(* Errors thrown inside poll, as the catch block of lines 810-855 reads them.
   A non-OK response throws `Failed to get job status: HTTP ${status}` (line
   590); a failed fetch or a TypeError thrown while reading the body carries
   a browser message without digits.  The catch block classifies the error by
   substrings of the message alone. *)

NetworkError == 0
HttpErrors == {404, 410, 429, 500}
ErrorKinds == HttpErrors \cup {NetworkError}

Digits(n) == <<n \div 100, (n \div 10) % 10, n % 10>>

ErrorMessage(e) ==
    IF e \in HttpErrors
    THEN [http |-> TRUE, digits |-> Digits(e)]     \* "... HTTP " then the code
    ELSE [http |-> FALSE, digits |-> <<>>]         \* "Failed to fetch", TypeError

ContainsDigits(ds, pat) ==
    \E k \in 0..(Len(ds) - Len(pat)) : SubSeq(ds, k + 1, k + Len(pat)) = pat

\* error.message.includes("HTTP 404"), line 814
IsNotFound(msg) ==
    msg.http /\ Len(msg.digits) >= 3 /\ SubSeq(msg.digits, 1, 3) = <<4, 0, 4>>

\* includes("429") || includes("rate limit") || includes("temporarily blocked")
IsRateLimited(msg) == ContainsDigits(msg.digits, <<4, 2, 9>>)

\* Math.min(30000 * Math.pow(2, consecutiveRateLimitErrors - 1), 300000)
backoffDelay(consecutive) == Min(backoffBase * Pow2(consecutive - 1), backoffCap)

----------------------------------------------------------------------------
(* State *)

NoUpload == <<>>
NoCall == <<>>     \* extractNameFromFilename was not called yet

\* files of one submission: one file, a small batch with any names, or a
\* batch one larger than the store cap
BigBatch == [i \in 1..(StoreCap + 1) |-> IF i % 2 = 1 THEN "a.pdf" ELSE "b.pdf"]
Batches == {<<"a.pdf">>, <<"a.pdf", "b.pdf">>, <<"a.pdf", "a.pdf">>}

\* pollBulkJobStatus(jobId): the closure variables of lines 576-579, the state
\* of its timer or fetch (pc, delay, hung), the alert it raised (notice, and
\* reason for the text of the failure alert), and
\* two history fields: outcome, how its last poll ended, and streak, the
\* rate-limited polls in a row counted from the responses themselves
NewPoller(jobId) ==
    [job |-> jobId, attempts |-> 0, consecutiveRateLimitErrors |-> 0,
     pc |-> "timer", delay |-> firstPollDelay, hung |-> FALSE,
     outcome |-> "none", notice |-> "none", reason |-> NoReason, streak |-> 0]

Processing(s) == SelectSeq(s, LAMBDA a : a.status = "processing" /\ a.jobId # NoJob)

CompletedUids(s) == {s[i].uid : i \in {k \in 1..Len(s) : s[k].status = "completed"}}

Ids(s) == {s[i].id : i \in 1..Len(s)}

\* React state recentAnalyses.  Every handler of the dashboard that writes
\* the store sets it to the first three records (slice(0, 3)), and the effect
\* reloads it when the dashboard mounts, so while the dashboard is shown it is
\* this function of the store.
shown == Take(store, ViewSize)

\* The history page lists every record; the deletions explored there are of
\* the three most recent records and of the oldest one.
listed == shown \o (IF store = <<>> THEN <<>> ELSE <<store[Len(store)]>>)

\* a record left in localStorage by an earlier page session
OldRecord(n) == Rec(TsId(-n), NoJob, "a.pdf", "completed", 80)

Init ==
    /\ store = <<>>
    /\ upload = NoUpload
    /\ pollers = <<>>
    /\ rechecks = [j \in Jobs |-> 0]
    /\ nextJob = 1
    /\ clock = 1
    /\ deletes = 0
    /\ seenDone = CompletedUids(store)
    /\ derived = NoCall

\* every write of the store goes through here: the history of completions
Write(s) ==
    /\ store' = s
    /\ seenDone' = seenDone \cup CompletedUids(s)

NoWrite == UNCHANGED <<store, seenDone>>

----------------------------------------------------------------------------
(* handleUpload, lines 198-475 *)

\* the click: files are selected, no upload is running (the button is
\* disabled while isAnalyzing); the handler runs to its fetch
handleUpload(files) ==
    /\ upload = NoUpload
    /\ IF Len(files) = 1 THEN clock \in SaveTimes ELSE nextJob \in Jobs
    /\ upload' = files
    /\ NoWrite
    /\ UNCHANGED <<pollers, rechecks, nextJob, clock, deletes, derived>>

\* single file, response status "success": lines 267-321
UploadSingleSaved(sc) ==
    /\ Len(upload) = 1
    /\ Write(saveToLocalStorage(store, clock, upload[1], sc))
    /\ upload' = NoUpload
    /\ clock' = clock + 1
    /\ UNCHANGED <<pollers, rechecks, nextJob, deletes, derived>>

\* files.map((file, index) => ({...})), lines 391-410
placeholders(files, jobId) ==
    [i \in 1..Len(files) |->
        Rec(PlaceholderId(jobId, i - 1), jobId, files[i], "processing", 0)]

\* several files, the response carries a job_id: lines 378-430
UploadBulkStarted ==
    /\ Len(upload) >= 2
    /\ Len(pollers) + 1 \in PollerSlots
    /\ Write(Prepend(placeholders(upload, nextJob), store))
    /\ pollers' = Append(pollers, NewPoller(nextJob))
    /\ upload' = NoUpload
    /\ nextJob' = nextJob + 1
    /\ UNCHANGED <<rechecks, clock, deletes, derived>>

\* the request fails, or the response is not a success: the catch block
UploadFailed ==
    /\ upload # NoUpload
    /\ upload' = NoUpload
    /\ NoWrite
    /\ UNCHANGED <<pollers, rechecks, nextJob, clock, deletes, derived>>

----------------------------------------------------------------------------
(* Deletions *)

\* filter(analysis => analysis.id !== analysisId)
removeById(s, ids) == SelectSeq(s, LAMBDA a : a.id \notin ids)

\* handleRemoveAnalysis, lines 68-77: the menu of a card the dashboard shows
handleRemoveAnalysis(analysisId) ==
    /\ deletes \in DeleteBudget
    /\ analysisId \in Ids(shown)
    /\ Write(removeById(store, {analysisId}))
    /\ deletes' = deletes + 1
    /\ UNCHANGED <<upload, pollers, rechecks, nextJob, clock, derived>>

\* HistoryAnalytics.handleDeleteAnalysis and handleBulkDelete
handleDeleteAnalysis(selected) ==
    /\ deletes \in DeleteBudget
    /\ selected # {}
    /\ Write(removeById(store, selected))
    /\ deletes' = deletes + 1
    /\ UNCHANGED <<upload, pollers, rechecks, nextJob, clock, derived>>

----------------------------------------------------------------------------
(* HistoryAnalytics.loadHistoryData: processing entries older than ten
   minutes are marked completed.  Records of one job are created together and
   jobs are numbered in the order they were created, so the aged entries are
   those of the jobs up to `aged`. *)

cleanedAnalyses(s, aged) ==
    [i \in 1..Len(s) |->
        IF s[i].status = "processing" /\ s[i].jobId # NoJob /\ s[i].jobId <= aged
        THEN [s[i] EXCEPT !.status = "completed"]
        ELSE s[i]]

loadHistoryData(aged) ==
    /\ IF cleanedAnalyses(store, aged) # store
       THEN Write(cleanedAnalyses(store, aged))
       ELSE NoWrite
    /\ UNCHANGED <<upload, pollers, rechecks, nextJob, clock, deletes, derived>>

----------------------------------------------------------------------------
(* pollBulkJobStatus, lines 575-860 *)

RECURSIVE Polls(_)
Polls(ps) == IF ps = <<>> THEN 0 ELSE Head(ps).attempts + Polls(Tail(ps))

JobsOf(s) == [i \in 1..Len(s) |-> NewPoller(s[i].jobId)]

\* a timer set by setTimeout(poll, ...) fires: attempts++ and the fetch of
\* lines 583-587 is sent.  The request may be one that is never answered.
PollTimer(p, never, budget) ==
    /\ pollers[p].pc = "timer"
    /\ Polls(pollers) < budget
    /\ pollers' = [pollers EXCEPT ![p].attempts = @ + 1,
                                  ![p].pc = "fetch",
                                  ![p].delay = 0,
                                  ![p].hung = never]
    /\ NoWrite
    /\ UNCHANGED <<upload, rechecks, nextJob, clock, deletes, derived>>

Scheduled(q, ms) == [q EXCEPT !.pc = "timer", !.delay = ms]
Stopped(q, notice) == [q EXCEPT !.pc = "done", !.delay = 0, !.notice = notice]

\* a variant that retries without looking at the attempt counter
CatchOtherUnbounded(q) ==
    Scheduled([q EXCEPT !.consecutiveRateLimitErrors = 0], pollInterval * 2)

\* the catch block for an error that is neither not-found nor rate-limited,
\* lines 845-854
CatchOther(q) ==
    IF q.attempts < maxAttempts
    THEN Scheduled([q EXCEPT !.consecutiveRateLimitErrors = 0], pollInterval * 2)
    ELSE Stopped(q, "unable")

\* the catch block for a rate-limited poll, lines 825-844
CatchRateLimited(q) ==
    LET c == q.consecutiveRateLimitErrors + 1
        r == [q EXCEPT !.consecutiveRateLimitErrors = c]
    IN  IF q.attempts < maxAttempts
        THEN Scheduled(r, backoffDelay(c))
        ELSE Stopped(r, "rateLimited")

\* a variant that tests the attempt budget before the failed status
AfterStatusBudgetFirst(q, status) ==
    IF status = "completed" THEN Stopped(q, "none")
    ELSE IF q.attempts >= maxAttempts THEN Stopped(q, "timeout")
    ELSE IF status = "processing" THEN Scheduled(q, pollInterval)
    ELSE IF status = "failed" THEN Stopped(q, "failed")
    ELSE Stopped(q, "none")

\* what the poller does after the store update of a successful poll,
\* lines 786-809
AfterStatus(q, status) ==
    IF status = "completed" THEN Stopped(q, "none")
    ELSE IF status = "processing" /\ q.attempts < maxAttempts
         THEN Scheduled(q, pollInterval)
    ELSE IF status = "failed" THEN Stopped(q, "failed")
    ELSE IF q.attempts >= maxAttempts THEN Stopped(q, "timeout")
    ELSE Stopped(q, "none")

Outcome(q, o, n) == [q EXCEPT !.outcome = o, !.streak = n]

\* jobStatus.error_message || "Unknown error", lines 799-803
shownReason(error_message) ==
    IF error_message # NoReason THEN error_message ELSE "Unknown error"

\* the fetch is answered 2xx with a JSON body: lines 593-809.  `defined` is
\* whether the body has a results field; without one, line 738 throws a
\* TypeError when the status is completed.
PollResponseWith(p, status, defined, results, error_message) ==
    LET q == pollers[p]
        written == defined /\ (Len(results) > 0 \/ status = "completed")
        throws == ~defined /\ status = "completed"
        after == AfterStatus(q, status)
    IN  /\ q.pc = "fetch"
        /\ ~q.hung
        /\ defined \/ results = <<>>
        /\ IF written
           THEN Write(reconcile(store, q.job, status, results))
           ELSE NoWrite
        /\ pollers' = [pollers EXCEPT
                          ![p] = IF throws
                                 THEN Outcome(CatchOther(q), "error", 0)
                                 ELSE Outcome(
                                        IF after.notice = "failed"
                                        THEN [after EXCEPT !.reason = shownReason(error_message)]
                                        ELSE after,
                                        status, 0)]
        /\ UNCHANGED <<upload, rechecks, nextJob, clock, deletes, derived>>

\* the same for a body without error_message
PollResponse(p, status, defined, results) ==
    PollResponseWith(p, status, defined, results, NoReason)

\* the fetch fails or is answered with a non-2xx status: lines 589-591 and
\* the catch block, lines 810-855
PollError(p, e) ==
    LET q == pollers[p]
        msg == ErrorMessage(e)
    IN  /\ q.pc = "fetch"
        /\ ~q.hung
        /\ IF IsNotFound(msg)
           THEN /\ Write(removeJob(store, q.job))
                /\ pollers' = [pollers EXCEPT
                      ![p] = Outcome(Stopped(q, "none"), "notFound", 0)]
           ELSE /\ NoWrite
                /\ pollers' = [pollers EXCEPT
                      ![p] = IF IsRateLimited(msg)
                             THEN Outcome(CatchRateLimited(q), "rateLimited",
                                          q.streak + 1)
                             ELSE Outcome(CatchOther(q), "error", 0)]
        /\ UNCHANGED <<upload, rechecks, nextJob, clock, deletes, derived>>

----------------------------------------------------------------------------
(* handleRefreshResults, lines 500-518: one call of pollBulkJobStatus for
   every processing record that has a jobId *)

handleRefreshResults ==
    LET processingJobs == Processing(store)
    IN  /\ Len(pollers) + Len(processingJobs) \in PollerSlots \cup {0}
        /\ IF Len(processingJobs) > 0
           THEN pollers' = pollers \o JobsOf(processingJobs)
           ELSE UNCHANGED pollers   \* only the displayed list is reloaded
        /\ NoWrite
        /\ UNCHANGED <<upload, rechecks, nextJob, clock, deletes, derived>>

----------------------------------------------------------------------------
(* The dashboard effect, lines 862-934: loadRecentAnalyses runs when the
   component mounts, when showDropdownId changes and on a storage event.  It
   sends one status fetch for every processing record. *)

CountOf(s, jobId) == Len(SelectSeq(s, LAMBDA a : a.jobId = jobId))

loadRecentAnalyses ==
    LET processingJobs == Processing(store)
    IN  /\ \A j \in Jobs : rechecks[j] + CountOf(processingJobs, j) \in RecheckSlots \cup {0}
        /\ rechecks' = [j \in Jobs |-> rechecks[j] + CountOf(processingJobs, j)]
        /\ NoWrite
        /\ UNCHANGED <<upload, pollers, nextJob, clock, deletes, derived>>

\* a variant that restarts polling on every OK answer
RecheckAnsweredAnyOk(jobId, ok, hasResults) ==
    /\ rechecks[jobId] > 0
    /\ rechecks' = [rechecks EXCEPT ![jobId] = @ - 1]
    /\ IF ok
       THEN /\ Len(pollers) + 1 \in PollerSlots
            /\ pollers' = Append(pollers, NewPoller(jobId))
       ELSE UNCHANGED pollers
    /\ NoWrite
    /\ UNCHANGED <<upload, nextJob, clock, deletes, derived>>

\* one of those fetches is answered: lines 874-884
RecheckAnswered(jobId, ok, hasResults) ==
    /\ rechecks[jobId] > 0
    /\ rechecks' = [rechecks EXCEPT ![jobId] = @ - 1]
    /\ IF ok /\ hasResults
       THEN /\ Len(pollers) + 1 \in PollerSlots
            /\ pollers' = Append(pollers, NewPoller(jobId))
       ELSE UNCHANGED pollers
    /\ NoWrite
    /\ UNCHANGED <<upload, nextJob, clock, deletes, derived>>

----------------------------------------------------------------------------

NextWithin(budget) ==
    \/ \E files \in Batches : handleUpload(files)
    \/ \E sc \in SingleScores : UploadSingleSaved(sc)
    \/ UploadBulkStarted
    \/ UploadFailed
    \/ \E id \in Ids(shown) : handleRemoveAnalysis(id)
    \/ \E id \in Ids(listed) : handleDeleteAnalysis({id})
    \/ \E aged \in Jobs \cup {NoJob} : loadHistoryData(aged)
    \/ \E p \in 1..Len(pollers) : \E never \in BOOLEAN : PollTimer(p, never, budget)
    \/ \E p \in 1..Len(pollers) : \E status \in JobStates :
          \E results \in ResultLists : PollResponse(p, status, TRUE, results)
    \/ \E p \in 1..Len(pollers) : \E status \in JobStates :
          PollResponse(p, status, FALSE, <<>>)
    \/ \E p \in 1..Len(pollers) : \E e \in ErrorKinds : PollError(p, e)
    \/ handleRefreshResults
    \/ loadRecentAnalyses
    \/ \E j \in Jobs : \E ok, hasResults \in BOOLEAN : RecheckAnswered(j, ok, hasResults)

Next == NextWithin(MaxPolls)

Spec == Init /\ [][Next]_vars

\* A page whose store was filled by earlier sessions, after a batch larger
\* than the store cap was submitted.
FullStore == [i \in 1..StoreCap |-> OldRecord(i)]

InitCap ==
    /\ store = FullStore
    /\ upload = BigBatch
    /\ pollers = <<>>
    /\ rechecks = [j \in Jobs |-> 0]
    /\ nextJob = 1
    /\ clock = 1
    /\ deletes = 0
    /\ seenDone = CompletedUids(store)
    /\ derived = NoCall

NextCap == NextWithin(MaxPollsCap)

SpecCap == InitCap /\ [][NextCap]_vars

\* One poller followed alone: the page right after a.pdf and b.pdf were
\* submitted as job 1, and only the steps of its poller.
InitPoller ==
    /\ store = placeholders(<<"a.pdf", "b.pdf">>, 1)
    /\ upload = NoUpload
    /\ pollers = <<NewPoller(1)>>
    /\ rechecks = [j \in Jobs |-> 0]
    /\ nextJob = 2
    /\ clock = 1
    /\ deletes = 0
    /\ seenDone = {}
    /\ derived = NoCall

NextPoller ==
    \/ \E never \in BOOLEAN : PollTimer(1, never, MaxPollsDeep)
    \/ \E status \in JobStates :
          \E results \in ResultLists : PollResponse(1, status, TRUE, results)
    \/ \E status \in JobStates : PollResponse(1, status, FALSE, <<>>)
    \/ \E e \in ErrorKinds : PollError(1, e)

SpecPoller == InitPoller /\ [][NextPoller]_vars

\* The same poller late in its life: every poll so far was answered
\* {status: "processing"} without results, and MaxPollsLate attempts are
\* left.  The status endpoint may answer with any status value.
InitLate ==
    /\ store = placeholders(<<"a.pdf", "b.pdf">>, 1)
    /\ upload = NoUpload
    /\ pollers = <<[NewPoller(1) EXCEPT !.attempts = maxAttempts - MaxPollsLate,
                                        !.delay = pollInterval,
                                        !.outcome = "processing"]>>
    /\ rechecks = [j \in Jobs |-> 0]
    /\ nextJob = 2
    /\ clock = 1
    /\ deletes = 0
    /\ seenDone = {}
    /\ derived = NoCall

NextLate ==
    \/ \E never \in BOOLEAN : PollTimer(1, never, maxAttempts + 1)
    \/ \E status \in WideJobStates : \E m \in BackendReasons :
          \E results \in ResultLists : PollResponseWith(1, status, TRUE, results, m)
    \/ \E status \in WideJobStates : \E m \in BackendReasons :
          PollResponseWith(1, status, FALSE, <<>>, m)
    \/ \E e \in ErrorKinds : PollError(1, e)

SpecLate == InitLate /\ [][NextLate]_vars

\* Two jobs on one page: a.pdf and b.pdf were submitted as job 1, then a
\* single file was analysed, then a.pdf and b.pdf were submitted as job 2.
\* Each job has the poller its submission started; the user may delete a
\* record while they poll.
InitJobs ==
    /\ store = placeholders(<<"a.pdf", "b.pdf">>, 2)
                 \o <<Rec(TsId(1), NoJob, "a.pdf", "completed", 80)>>
                 \o placeholders(<<"a.pdf", "b.pdf">>, 1)
    /\ upload = NoUpload
    /\ pollers = <<NewPoller(1), NewPoller(2)>>
    /\ rechecks = [j \in Jobs |-> 0]
    /\ nextJob = 3
    /\ clock = 2
    /\ deletes = 0
    /\ seenDone = CompletedUids(store)
    /\ derived = NoCall

NextJobs ==
    \/ \E p \in 1..Len(pollers) : \E never \in BOOLEAN : PollTimer(p, never, MaxPollsJobs)
    \/ \E p \in 1..Len(pollers) : \E status \in JobStates :
          \E results \in ResultLists : PollResponse(p, status, TRUE, results)
    \/ \E p \in 1..Len(pollers) : \E status \in JobStates :
          PollResponse(p, status, FALSE, <<>>)
    \/ \E p \in 1..Len(pollers) : \E e \in ErrorKinds : PollError(p, e)
    \/ \E id \in Ids(shown) : handleRemoveAnalysis(id)
    \/ \E id \in Ids(listed) : handleDeleteAnalysis({id})

SpecJobs == InitJobs /\ [][NextJobs]_vars

\* A job left behind in a full store: a.pdf and b.pdf were submitted as job
\* 1 and single analyses were saved until the store was full, so the
\* placeholders are its oldest records.  The job's poller, the user and later
\* submissions act on it.
MaxPollsFailed == 2

InitFailed ==
    /\ store = [i \in 1..(StoreCap - 2) |-> OldRecord(i)]
                 \o placeholders(<<"a.pdf", "b.pdf">>, 1)
    /\ upload = NoUpload
    /\ pollers = <<NewPoller(1)>>
    /\ rechecks = [j \in Jobs |-> 0]
    /\ nextJob = 2
    /\ clock = 1
    /\ deletes = 0
    /\ seenDone = CompletedUids(store)
    /\ derived = NoCall

NextFailed ==
    \/ \E p \in 1..Len(pollers) : \E never \in BOOLEAN :
          PollTimer(p, never, MaxPollsFailed)
    \/ \E p \in 1..Len(pollers) : \E status \in JobStates :
          \E results \in PartialResultLists : PollResponse(p, status, TRUE, results)
    \/ \E p \in 1..Len(pollers) : \E status \in JobStates :
          PollResponse(p, status, FALSE, <<>>)
    \/ \E p \in 1..Len(pollers) : \E e \in ErrorKinds : PollError(p, e)
    \/ handleUpload(<<"a.pdf">>)
    \/ \E sc \in SingleScores : UploadSingleSaved(sc)
    \/ UploadFailed
    \/ \E id \in Ids(shown) : handleRemoveAnalysis(id)
    \/ \E id \in Ids(listed) : handleDeleteAnalysis({id})
    \/ \E aged \in Jobs \cup {NoJob} : loadHistoryData(aged)
    \/ handleRefreshResults

SpecFailed == InitFailed /\ [][NextFailed]_vars

----------------------------------------------------------------------------
(* Reads and writes of the store.  Every handler runs in segments that end at
   an await or a timer; a segment runs to completion before another starts.
   Here the value a writer reads is explicit: `derived` keeps, for every
   poller and for the upload handler, the store as it was when the handler's
   request was sent (sent), and whether a write was made after another
   writer had written since then (crossed). *)

\* a variant that uses the list as it was when the request was sent
existingAnalysesAtSend(sent, now) == sent

\* JSON.parse(localStorage.getItem("recentAnalyses")) || [], evaluated in the
\* segment that writes: after the awaits of lines 585-593 in poll (lines
\* 598-599, 817), after the awaits of handleUpload (lines 150-151, 413-414)
existingAnalyses(sent, now) == now

MaxPollsAtomic == 2

\* the job id a further bulk submission gets
LaterJobs == {2}

\* responses with no result or with the result of one file
OneScoreResultLists == {<<>>, <<Result("a.pdf", 80)>>, <<Result("b.pdf", 80)>>}

InitAtomic ==
    /\ store = placeholders(<<"a.pdf", "b.pdf">>, 1)
    /\ upload = NoUpload
    /\ pollers = <<NewPoller(1)>>
    /\ rechecks = [j \in Jobs |-> 0]
    /\ nextJob = 2
    /\ clock = 1
    /\ deletes = 0
    /\ seenDone = {}
    /\ derived = [poll |-> <<store>>, upload |-> store, crossed |-> FALSE]

\* the write of a handler that sent its request when the store was `sent`
WriteFrom(sent, s) ==
    /\ Write(s)
    /\ derived' = [derived EXCEPT !.crossed = @ \/ sent # store]

\* the timer of a poller fires and the fetch of line 585 is sent
AtomicPollTimer(p, never) ==
    /\ pollers[p].pc = "timer"
    /\ Polls(pollers) < MaxPollsAtomic
    /\ pollers' = [pollers EXCEPT ![p].attempts = @ + 1,
                                  ![p].pc = "fetch",
                                  ![p].delay = 0,
                                  ![p].hung = never]
    /\ derived' = [derived EXCEPT !.poll[p] = store]
    /\ NoWrite
    /\ UNCHANGED <<upload, rechecks, nextJob, clock, deletes>>

\* the fetch is answered 2xx with a results list: lines 593-809
AtomicPollResponse(p, status, results) ==
    LET q == pollers[p]
        sent == derived.poll[p]
    IN  /\ q.pc = "fetch"
        /\ ~q.hung
        /\ IF Len(results) > 0 \/ status = "completed"
           THEN WriteFrom(sent, reconcile(existingAnalyses(sent, store),
                                          q.job, status, results))
           ELSE NoWrite /\ UNCHANGED derived
        /\ pollers' = [pollers EXCEPT ![p] = Outcome(AfterStatus(q, status), status, 0)]
        /\ UNCHANGED <<upload, rechecks, nextJob, clock, deletes>>

\* the fetch is answered 404: lines 814-821
AtomicPollNotFound(p) ==
    LET q == pollers[p]
        sent == derived.poll[p]
    IN  /\ q.pc = "fetch"
        /\ ~q.hung
        /\ WriteFrom(sent, removeJob(existingAnalyses(sent, store), q.job))
        /\ pollers' = [pollers EXCEPT ![p] = Outcome(Stopped(q, "none"), "notFound", 0)]
        /\ UNCHANGED <<upload, rechecks, nextJob, clock, deletes>>

\* the click on Analyze: the handler runs to the await of its fetch
AtomicHandleUpload(files) ==
    /\ upload = NoUpload
    /\ IF Len(files) = 1 THEN clock \in SaveTimes ELSE nextJob \in LaterJobs
    /\ upload' = files
    /\ derived' = [derived EXCEPT !.upload = store]
    /\ NoWrite
    /\ UNCHANGED <<pollers, rechecks, nextJob, clock, deletes>>

\* single file: saveToLocalStorage after the response, lines 149-196
AtomicUploadSingleSaved(sc) ==
    /\ Len(upload) = 1
    /\ WriteFrom(derived.upload,
                 saveToLocalStorage(existingAnalyses(derived.upload, store),
                                    clock, upload[1], sc))
    /\ upload' = NoUpload
    /\ clock' = clock + 1
    /\ UNCHANGED <<pollers, rechecks, nextJob, deletes>>

\* several files: the placeholders are stored after the response, lines
\* 391-430
AtomicUploadBulkStarted ==
    /\ Len(upload) >= 2
    /\ Len(pollers) + 1 \in PollerSlots
    /\ store' = Prepend(placeholders(upload, nextJob),
                        existingAnalyses(derived.upload, store))
    /\ seenDone' = seenDone \cup CompletedUids(store')
    /\ derived' = [derived EXCEPT !.crossed = @ \/ derived.upload # store,
                                  !.poll = Append(@, store')]
    /\ pollers' = Append(pollers, NewPoller(nextJob))
    /\ upload' = NoUpload
    /\ nextJob' = nextJob + 1
    /\ UNCHANGED <<rechecks, clock, deletes>>

\* handleRemoveAnalysis, lines 68-77: one segment, read and write
AtomicHandleRemoveAnalysis(analysisId) ==
    /\ deletes \in DeleteBudget
    /\ analysisId \in Ids(shown)
    /\ WriteFrom(store, removeById(existingAnalyses(store, store), {analysisId}))
    /\ deletes' = deletes + 1
    /\ UNCHANGED <<upload, pollers, rechecks, nextJob, clock>>

NextAtomic ==
    \/ \E p \in 1..Len(pollers) : AtomicPollTimer(p, FALSE)
    \/ \E p \in 1..Len(pollers) : \E status \in JobStates :
          \E results \in OneScoreResultLists : AtomicPollResponse(p, status, results)
    \/ \E p \in 1..Len(pollers) : AtomicPollNotFound(p)
    \/ \E files \in {<<"a.pdf">>, <<"a.pdf", "b.pdf">>} : AtomicHandleUpload(files)
    \/ \E sc \in SingleScores : AtomicUploadSingleSaved(sc)
    \/ AtomicUploadBulkStarted
    \/ \E id \in Ids(shown) : AtomicHandleRemoveAnalysis(id)

SpecAtomic == InitAtomic /\ [][NextAtomic]_vars

----------------------------------------------------------------------------
(* extractNameFromFilename, lines 521-572.  A string is the sequence of its
   characters. *)

UpperSeq == <<"A", "B", "C", "D", "E", "F", "G", "H", "I", "J", "K", "L", "M",
              "N", "O", "P", "Q", "R", "S", "T", "U", "V", "W", "X", "Y", "Z">>
LowerSeq == <<"a", "b", "c", "d", "e", "f", "g", "h", "i", "j", "k", "l", "m",
              "n", "o", "p", "q", "r", "s", "t", "u", "v", "w", "x", "y", "z">>
Upper == Range(UpperSeq)             \* [A-Z]
Lower == Range(LowerSeq)             \* [a-z]
Letters == Upper \cup Lower          \* [A-Za-z], and [a-z] under the i flag
Whitespace == {" ", "\t"}            \* \s
Separators == {"-", "_"}             \* [-_]

Max(S) == CHOOSE x \in S : \A y \in S : y <= x
IndexIn(c, seq) == CHOOSE i \in 1..Len(seq) : seq[i] = c
lowerChar(c) == IF c \in Upper THEN LowerSeq[IndexIn(c, UpperSeq)] ELSE c
upperChar(c) == IF c \in Lower THEN UpperSeq[IndexIn(c, LowerSeq)] ELSE c

null == <<>>       \* the function returns no name
NoMatch == <<>>    \* String.prototype.match returned null

\* fileName.replace(/\.[^/.]+$/, ""), line 525
nameWithoutExt(s) ==
    LET dots == {i \in 1..Len(s) : s[i] = "."}
    IN  IF dots = {} THEN s
        ELSE LET d == Max(dots)
             IN  IF d < Len(s) /\ \A k \in (d + 1)..Len(s) : s[k] # "/"
                 THEN SubSeq(s, 1, d - 1)
                 ELSE s

\* w is in Word(?:\s+Word)+ where Word is one character of heads followed
\* by characters of tails (at least one of them if another is needed)
IsWords(w, heads, tails, another) ==
    /\ Len(w) > 0
    /\ w[1] \notin Whitespace
    /\ w[Len(w)] \notin Whitespace
    /\ \E i \in 1..Len(w) : w[i] \in Whitespace
    /\ \A i \in 1..Len(w) :
          \/ w[i] \in Whitespace
          \/ IF i = 1 \/ w[i - 1] \in Whitespace
             THEN /\ w[i] \in heads
                  /\ another => (i < Len(w) /\ w[i + 1] \notin Whitespace)
             ELSE w[i] \in tails

\* r is in (?:\s*[-_]\s*.+)?$
IsRest(r) ==
    \/ r = <<>>
    \/ \E j \in 1..Len(r) :
          /\ \A k \in 1..(j - 1) : r[k] \in Whitespace
          /\ r[j] \in Separators
          /\ j < Len(r)

\* group 1 of ^(Word(?:\s+Word)+)(?:\s*[-_]\s*.+)?$ : every quantifier is
\* greedy, so the longest prefix that lets the rest match is captured
matchLeading(s, heads, tails, another) ==
    LET ends == {k \in 1..Len(s) :
                    /\ IsWords(SubSeq(s, 1, k), heads, tails, another)
                    /\ IsRest(SubSeq(s, k + 1, Len(s)))}
    IN  IF ends = {} THEN NoMatch ELSE SubSeq(s, 1, Max(ends))

RECURSIVE trimStart(_)
trimStart(s) ==
    IF s # <<>> /\ Head(s) \in Whitespace THEN trimStart(Tail(s)) ELSE s

RECURSIVE trimEnd(_)
trimEnd(s) ==
    IF s # <<>> /\ s[Len(s)] \in Whitespace
    THEN trimEnd(SubSeq(s, 1, Len(s) - 1)) ELSE s

trim(s) == trimEnd(trimStart(s))

\* group 1 of .*[-_]\s*([A-Z][a-z]+(?:\s+[A-Z][a-z]+)+)$
matchTrailing(s) ==
    LET seps == {i \in 1..Len(s) :
                    /\ s[i] \in Separators
                    /\ IsWords(trimStart(SubSeq(s, i + 1, Len(s))),
                               Upper, Lower, TRUE)}
    IN  IF seps = {} THEN NoMatch
        ELSE trimStart(SubSeq(s, Max(seps) + 1, Len(s)))

\* the five patterns of lines 528-539, in their order
matchOf(s, pattern) ==
    CASE pattern = 1 -> matchLeading(s, Upper, Lower, TRUE)
      [] pattern = 2 -> matchTrailing(s)
      [] pattern = 3 -> IF IsWords(s, Upper, Lower, TRUE) THEN s ELSE NoMatch
      [] pattern = 4 -> matchLeading(s, Letters, Letters, FALSE)
      [] pattern = 5 -> matchLeading(s, Letters, Letters, FALSE)

Patterns == 1..5

\* toLowerCase().split(" ").map(capitalise).join(" ")
properCase(s) ==
    [i \in 1..Len(s) |->
        IF i = 1 \/ s[i - 1] = " "
        THEN upperChar(lowerChar(s[i]))
        ELSE lowerChar(s[i])]

\* replace(/\s+/g, " ")
RECURSIVE collapse(_)
collapse(s) ==
    IF s = <<>> THEN <<>>
    ELSE IF Head(s) \in Whitespace
         THEN <<" ">> \o collapse(trimStart(s))
         ELSE <<Head(s)>> \o collapse(Tail(s))

\* nameWithoutExt.replace(/[-_]/g, " ").replace(/\s+/g, " ").trim()
cleaned(s) ==
    trim(collapse([i \in 1..Len(s) |-> IF s[i] \in Separators THEN " " ELSE s[i]]))

extractNameFromFilename(fileName) ==
    IF fileName = <<>> THEN null
    ELSE LET s == nameWithoutExt(fileName)
             hits == {n \in Patterns : matchOf(s, n) # NoMatch}
             c == cleaned(s)
         IN  IF hits # {}
             THEN properCase(trim(matchOf(s, CHOOSE n \in hits : \A k \in hits : n <= k)))
             ELSE IF (\E i \in 1..Len(c) : c[i] = " ") /\ Len(c) > 2 /\ Len(c) < 50
                  THEN properCase(c)
                  ELSE null

(* File names the function is applied to: up to MaxWords words joined by
   '_', '-' or ' ', with the extension .pdf *)
MaxWords == 3

Words == {<<"J", "o", "h", "n">>, <<"S", "m", "i", "t", "h">>,
          <<"R", "e", "s", "u", "m", "e">>, <<"r", "e", "s", "u", "m", "e">>,
          <<"f", "i", "n", "a", "l">>, <<"v", "2">>}
Joins == {<<"_">>, <<"-">>, <<" ">>}
DotPdf == <<".", "p", "d", "f">>

RECURSIVE Joined(_)
Joined(n) ==
    IF n = 1 THEN Words
    ELSE {x \o j \o w : x \in Joined(n - 1), j \in Joins, w \in Words}

FileArgs == {x \o DotPdf : x \in UNION {Joined(n) : n \in 1..MaxWords}}

\* the first call, as in lines 392-395: extractNameFromFilename(file.name)
extractName(fileName) ==
    /\ derived = NoCall
    /\ derived' = <<fileName, extractNameFromFilename(fileName)>>
    /\ NoWrite
    /\ UNCHANGED <<upload, pollers, rechecks, nextJob, clock, deletes>>

NextNames == \E fileName \in FileArgs : extractName(fileName)

SpecNames == Init /\ [][NextNames]_vars

----------------------------------------------------------------------------
(* candidateName of a completed placeholder: the exact-match path, lines
   613-619, and the forced-match path, lines 752-758 *)

UnknownCandidate == <<"U", "n", "k", "n", "o", "w", "n", " ",
                      "C", "a", "n", "d", "i", "d", "a", "t", "e">>

\* replace(/[-_]/g, " "), line 756
replaceSeparators(s) ==
    [i \in 1..Len(s) |-> IF s[i] \in Separators THEN " " ELSE s[i]]

\* a || b: the first operand unless it is falsy (null, undefined or "")
Or(a, b) == IF a # <<>> THEN a ELSE b

\* lines 615-618
extractedNameMatched(r) ==
    Or(r.candidate_name,
       Or(extractNameFromFilename(r.filename),
          nameWithoutExt(r.filename)))

\* lines 753-757
extractedNameForced(r) ==
    Or(r.candidate_name,
       Or(extractNameFromFilename(r.filename),
          Or(replaceSeparators(nameWithoutExt(r.filename)),
             UnknownCandidate)))

(* Results reconciled: a candidate_name or none, and a filename of up to
   MaxNameWords words, possibly with a separator before or after its only
   word or with no base name; a result of the forced pass may lack the
   filename *)
MaxNameWords == 2

CandidateNames == {<<>>, <<"A", "n", "n", " ", "L", "e", "e">>}

ResultFileNames ==
    {x \o DotPdf : x \in UNION {Joined(n) : n \in 1..MaxNameWords}}
      \cup {j \o w \o DotPdf : j \in Joins, w \in Words}
      \cup {w \o j \o DotPdf : j \in Joins, w \in Words}
      \cup {DotPdf}

NamedResult(c, f) == [candidate_name |-> c, filename |-> f]

\* a processing record whose fileName is the result's filename is completed
completeMatched(r) ==
    /\ derived = NoCall
    /\ derived' = <<"matched", r, extractedNameMatched(r)>>
    /\ NoWrite
    /\ UNCHANGED <<upload, pollers, rechecks, nextJob, clock, deletes>>

\* an unmatched result of a completed job is assigned to a processing record
completeForced(r) ==
    /\ derived = NoCall
    /\ derived' = <<"forced", r, extractedNameForced(r)>>
    /\ NoWrite
    /\ UNCHANGED <<upload, pollers, rechecks, nextJob, clock, deletes>>

NextCandidates ==
    \/ \E c \in CandidateNames : \E f \in ResultFileNames :
          completeMatched(NamedResult(c, f))
    \/ \E c \in CandidateNames : \E f \in ResultFileNames \cup {<<>>} :
          completeForced(NamedResult(c, f))

SpecCandidates == Init /\ [][NextCandidates]_vars

----------------------------------------------------------------------------
(* Properties *)

JobRecords(s, jobId) == SelectSeq(s, LAMBDA a : a.jobId = jobId)
OtherRecords(s, jobId) == SelectSeq(s, LAMBDA a : a.jobId # jobId)

WideResults == {Result(f, sc) : f \in WideResultNames, sc \in Scores}
WideResultLists == UNION {[1..n -> WideResults] : n \in 0..2}
NamedResultLists ==
    UNION {[1..n -> {r \in WideResults : r.filename # NoName}] : n \in 0..2}

IdempotentOn(lists) ==
    \A j \in Jobs : \A status \in JobStates : \A results \in lists :
        reconcile(reconcile(store, j, status, results), j, status, results)
            = reconcile(store, j, status, results)

\* C1: reconciling one response twice leaves the store as reconciling it
\* once does, for every reachable store, every job status and every results
\* list (names that match no placeholder, repeated names, results without a
\* filename).
C1_ReconcileIdempotent == IdempotentOn(WideResultLists)

\* The same when every result of the response carries a filename.
ReconcileIdempotentNamed == IdempotentOn(NamedResultLists)

\* C2: a record that was once stored as completed is never stored as
\* processing afterwards, and a record is turned from processing to
\* completed only if it was never completed before.
C2_NoRegress ==
    [][\A i \in 1..Len(store') :
          /\ store'[i].status = "processing" => store'[i].uid \notin seenDone
          /\ (/\ store'[i].status = "completed"
              /\ \E k \in 1..Len(store) :
                    store[k].uid = store'[i].uid /\ store[k].status = "processing")
             => store'[i].uid \notin seenDone]_vars

\* a placeholder was completed by one poll, a later poll of the same job was
\* answered, and another placeholder of the job is still processing
C2_Witness ==
    \E p \in 1..Len(pollers) :
        /\ pollers[p].attempts >= 2
        /\ pollers[p].pc = "timer"
        /\ pollers[p].outcome = "processing"
        /\ \E i \in 1..Len(store) :
              IsCompletedOf(store[i], pollers[p].job) /\ store[i].uid \in seenDone
        /\ HasProcessing(store, pollers[p].job)

\* C3: right after a bulk submission of k files that returned a job_id the
\* store holds exactly k processing records of that job, one per file.
C3_OnePlaceholderPerFile ==
    [][UploadBulkStarted =>
          /\ Len(JobRecords(store', nextJob)) = Len(upload)
          /\ \A i \in 1..Len(upload) :
                \E k \in 1..Len(store') :
                    /\ store'[k].id = PlaceholderId(nextJob, i - 1)
                    /\ store'[k].fileName = upload[i]
                    /\ IsProcessingOf(store'[k], nextJob)]_vars

\* C4: the store never holds more than StoreCap records, and a single save
\* into a store of StoreCap records leaves StoreCap records: the new one
\* first, then the former records in their order without the last one.
C4_CapAndEviction ==
    [][/\ Len(store) <= StoreCap
       /\ Len(store') <= StoreCap
       /\ \A sc \in SingleScores :
            (UploadSingleSaved(sc) /\ Len(store) = StoreCap) =>
                /\ Len(store') = StoreCap
                /\ store'[1].id = TsId(clock)
                /\ store'[1].fileName = upload[1]
                /\ store'[1].score = sc
                /\ SubSeq(store', 2, StoreCap) = SubSeq(store, 1, StoreCap - 1)
                /\ store[StoreCap] \notin Range(store')]_vars

\* a single save was made into the full store: its record is first, the
\* oldest record is gone, the nine others follow in their order
C4_Witness ==
    /\ Len(store) = StoreCap
    /\ store[1].id = TsId(1)
    /\ \A i \in 2..StoreCap : store[i] = OldRecord(i - 1)
    /\ OldRecord(StoreCap) \notin Range(store)

\* C5: a status query of job J answered with HTTP 404 removes every record
\* of J, leaves the other records as they were and in their order, and the
\* poller schedules no further query.
C5_NotFoundCleansUp ==
    [][\A p \in 1..Len(pollers) :
          PollError(p, 404) =>
              /\ JobRecords(store', pollers[p].job) = <<>>
              /\ store' = OtherRecords(store, pollers[p].job)
              /\ pollers'[p].pc = "done"
              /\ pollers'[p].attempts = pollers[p].attempts]_vars

\* a poller was answered 404 after one of its job's records was completed:
\* no record of the job is left, a record of a single analysis is
C5_Witness ==
    \E p \in 1..Len(pollers) :
        /\ pollers[p].outcome = "notFound"
        /\ pollers[p].pc = "done"
        /\ pollers[p].attempts >= 2
        /\ JobRecords(store, pollers[p].job) = <<>>
        /\ store # <<>>
        /\ \E u \in seenDone : u.kind = "ph" /\ u.job = pollers[p].job

\* C6: after the c-th rate-limited poll in a row, with attempts remaining,
\* the retry is scheduled after min(30s * 2^(c-1), 300s).
C6_BackoffOfStreak ==
    \A p \in 1..Len(pollers) :
        (pollers[p].outcome = "rateLimited" /\ pollers[p].pc = "timer") =>
            pollers[p].delay
                = Min(backoffBase * Pow2(pollers[p].streak - 1), backoffCap)

\* the records of job jobId are the two placeholders of a.pdf and b.pdf,
\* with the given status and score each
TwoRecords(s, jobId, stA, scA, stB, scB) ==
    LET js == JobRecords(s, jobId)
    IN  /\ Len(js) = 2
        /\ js[1].uid = PlaceholderId(jobId, 0) /\ js[1].fileName = "a.pdf"
        /\ js[1].status = stA /\ js[1].score = scA
        /\ js[2].uid = PlaceholderId(jobId, 1) /\ js[2].fileName = "b.pdf"
        /\ js[2].status = stB /\ js[2].score = scB

OnlyPollerOf(p, jobId) ==
    /\ pollers[p].job = jobId
    /\ \A q \in 1..Len(pollers) : pollers[q].job = jobId => q = p

\* C7: with the placeholders of a.pdf and b.pdf of job J1 in the store, the
\* response {processing, [a.pdf 80]} completes a.pdf with score 80, leaves
\* b.pdf processing and schedules another poll; then the response
\* {completed, [a.pdf, b.pdf 65]} completes b.pdf with score 65, leaves a.pdf
\* at 80, and the poller schedules nothing more.
C7_EndToEnd ==
    [][\A p \in 1..Len(pollers) : \A j \in Jobs :
          /\ (/\ OnlyPollerOf(p, j)
              /\ TwoRecords(store, j, "processing", 0, "processing", 0)
              /\ PollResponse(p, "processing", TRUE, <<Result("a.pdf", 80)>>))
             => /\ TwoRecords(store', j, "completed", 80, "processing", 0)
                /\ pollers'[p].pc = "timer"
                /\ pollers'[p].delay = pollInterval
          /\ \A sc \in Scores :
               (/\ OnlyPollerOf(p, j)
                /\ TwoRecords(store, j, "completed", 80, "processing", 0)
                /\ PollResponse(p, "completed", TRUE,
                                <<Result("a.pdf", sc), Result("b.pdf", 65)>>))
               => /\ TwoRecords(store', j, "completed", 80, "completed", 65)
                  /\ pollers'[p].pc = "done"
                  /\ pollers'[p].notice = "none"]_vars

\* both responses of the scenario were reconciled by the one poller of the job
C7_Witness ==
    \E j \in Jobs :
        /\ Len(pollers) = 1
        /\ pollers[1].job = j
        /\ pollers[1].attempts = 2
        /\ pollers[1].pc = "done"
        /\ pollers[1].outcome = "completed"
        /\ TwoRecords(store, j, "completed", 80, "completed", 65)
        /\ \A i \in 1..Len(store) :
              store[i].jobId = j => store[i].id = CompletedId(j, store[i].fileName)

\* C8: once a response with job status completed has been reconciled for
\* job J, no record of J is processing.
C8_NoneLeftProcessing ==
    [][\A p \in 1..Len(pollers) : \A results \in ResultLists :
          PollResponse(p, "completed", TRUE, results)
              => ~HasProcessing(store', pollers[p].job)]_vars

\* C9: at most one status request of the pollers of one job is in flight.
C9_OneRequestInFlight ==
    \A j \in Jobs :
        Cardinality({p \in 1..Len(pollers) :
                        pollers[p].job = j /\ pollers[p].pc = "fetch"}) <= 1

\* the steps one poller can take by itself
PollerStep(p) ==
    \/ \E never \in BOOLEAN : PollTimer(p, never, MaxPolls + 1)
    \/ \E status \in JobStates : \E results \in ResultLists :
          PollResponse(p, status, TRUE, results)
    \/ \E status \in JobStates : PollResponse(p, status, FALSE, <<>>)
    \/ \E e \in ErrorKinds : PollError(p, e)

\* C10: a poller whose status request is never answered is not stalled: it
\* has a step to take (the attempt is abandoned, and the next attempt or a
\* terminal condition follows).
C10_HungRequestAbandoned ==
    \A p \in 1..Len(pollers) :
        (pollers[p].pc = "fetch" /\ pollers[p].hung) => ENABLED PollerStep(p)

\* C11: a response with job status failed makes the poller raise one failure
\* alert that carries the backend's error_message and schedule no further
\* poll, whatever its attempt count and whatever the results of the response.
C11_FailedStops ==
    [][\A p \in 1..Len(pollers) : \A m \in BackendReasons :
          \A defined \in BOOLEAN : \A results \in ResultLists :
             PollResponseWith(p, "failed", defined, results, m) =>
                 /\ pollers[p].notice = "none"
                 /\ pollers'[p].notice = "failed"
                 /\ m # NoReason => pollers'[p].reason = m
                 /\ pollers'[p].pc = "done"
                 /\ pollers'[p].attempts = pollers[p].attempts]_vars

\* the last attempt of the budget was answered failed with a reason and a
\* result of a.pdf
C11_Witness ==
    \E p \in 1..Len(pollers) :
        /\ pollers[p].attempts = maxAttempts
        /\ pollers[p].outcome = "failed"
        /\ pollers[p].notice = "failed"
        /\ pollers[p].reason = "worker crashed"
        /\ pollers[p].pc = "done"
        /\ \E i \in 1..Len(store) : IsCompletedOf(store[i], pollers[p].job)

\* C12: a successful response without a results field is an empty update
\* for every job status: the store is unchanged, the poll does not end in
\* the error path, and the poller goes on as for that status with an empty
\* results list (it stops on completed).
C12_MissingResultsIsEmptyUpdate ==
    [][\A p \in 1..Len(pollers) : \A status \in JobStates :
          PollResponse(p, status, FALSE, <<>>) =>
              /\ store' = store
              /\ pollers'[p].outcome = status
              /\ pollers'[p].consecutiveRateLimitErrors
                    = pollers[p].consecutiveRateLimitErrors
              /\ status = "completed" =>
                    pollers'[p].pc = "done" /\ pollers'[p].notice = "none"
              /\ status = "failed" =>
                    pollers'[p].pc = "done" /\ pollers'[p].notice = "failed"
              /\ (status = "processing" /\ pollers[p].attempts < maxAttempts) =>
                    pollers'[p].pc = "timer" /\ pollers'[p].delay = pollInterval]_vars

JohnSmithResumePdf ==
    <<"J", "o", "h", "n", "_", "S", "m", "i", "t", "h", "_",
      "R", "e", "s", "u", "m", "e", ".", "p", "d", "f">>
ResumeFinalV2Pdf ==
    <<"r", "e", "s", "u", "m", "e", "_", "f", "i", "n", "a", "l", "_",
      "v", "2", ".", "p", "d", "f">>

\* C13: extractNameFromFilename("John_Smith_Resume.pdf") returns
\* "John Smith".
C13_JohnSmith ==
    (derived # NoCall /\ derived[1] = JohnSmithResumePdf) =>
        derived[2] = <<"J", "o", "h", "n", " ", "S", "m", "i", "t", "h">>

\* C14: extractNameFromFilename("resume_final_v2.pdf") returns null.
C14_NoNameForResumeFinal ==
    (derived # NoCall /\ derived[1] = ResumeFinalV2Pdf) => derived[2] = null

\* poller p's request in flight is answered in this step
Answered(p) == pollers[p].pc = "fetch" /\ pollers'[p].pc # "fetch"

\* C15: after every poll that was not rate-limited (a successful response
\* included) the consecutive-rate-limit counter is zero, and a rate-limited
\* poll that follows a successful poll is retried after the base delay.
C15_CounterResetOnSuccess ==
    [][\A p \in 1..Len(pollers) :
          /\ (Answered(p) /\ pollers'[p].outcome # "rateLimited")
                => pollers'[p].consecutiveRateLimitErrors = 0
          /\ (/\ PollError(p, 429)
              /\ pollers[p].outcome \in JobStates
              /\ pollers[p].attempts < maxAttempts)
                => pollers'[p].delay = backoffBase]_vars

\* C16: a poll that ends in an error that is neither not-found nor a rate
\* limit, with attempts remaining, schedules one retry after 30 s (longer
\* than the 15 s interval) and leaves the consecutive-rate-limit counter as
\* it was.
C16_GenericErrorKeepsCounter ==
    [][\A p \in 1..Len(pollers) : \A e \in ErrorKinds :
          (/\ PollError(p, e)
           /\ ~IsNotFound(ErrorMessage(e))
           /\ ~IsRateLimited(ErrorMessage(e))
           /\ pollers[p].attempts < maxAttempts)
          => /\ pollers'[p].pc = "timer"
             /\ pollers'[p].delay = 30000
             /\ pollers'[p].delay > pollInterval
             /\ pollers'[p].consecutiveRateLimitErrors
                   = pollers[p].consecutiveRateLimitErrors]_vars

\* C17: one poller sends at most maxAttempts status queries: no poll is
\* scheduled once the attempt counter has reached maxAttempts, whether the
\* polls were answered processing, rate-limited or with a generic error, and
\* the poll that exhausts the budget ends with a notice and stops the poller.
C17_AttemptBudget ==
    [][\A p \in 1..Len(pollers) :
          /\ pollers'[p].attempts <= maxAttempts
          /\ pollers'[p].pc = "timer" => pollers'[p].attempts < maxAttempts
          /\ (/\ Answered(p)
              /\ pollers[p].attempts = maxAttempts
              /\ pollers'[p].outcome \in {"processing", "rateLimited", "error"})
             => /\ pollers'[p].pc = "done"
                /\ pollers'[p].notice \in {"timeout", "rateLimited", "unable"}]_vars

\* the last attempt of the budget was rate-limited, the first rate limit in
\* a row: the poller stopped with the rate-limit notice
C17_Witness ==
    \E p \in 1..Len(pollers) :
        /\ pollers[p].attempts = maxAttempts
        /\ pollers[p].outcome = "rateLimited"
        /\ pollers[p].consecutiveRateLimitErrors = 1
        /\ pollers[p].pc = "done"
        /\ pollers[p].notice = "rateLimited"

\* C18: a poller stops only at a terminal condition: after every poll that
\* did not end with job completed, job failed, not-found or the attempt
\* budget used up, a next poll is scheduled, whatever status value the
\* response body carries.
C18_StopsOnlyWhenTerminal ==
    [][\A p \in 1..Len(pollers) :
          (/\ Answered(p)
           /\ pollers'[p].outcome \notin {"completed", "failed", "notFound"}
           /\ pollers[p].attempts < maxAttempts)
          => pollers'[p].pc = "timer"]_vars

\* C19: a status query answered with HTTP 410 is handled like not-found:
\* every record of the job is removed and the poller schedules nothing more.
C19_GoneCleansUp ==
    [][\A p \in 1..Len(pollers) :
          PollError(p, 410) =>
              /\ JobRecords(store', pollers[p].job) = <<>>
              /\ store' = OtherRecords(store, pollers[p].job)
              /\ pollers'[p].pc = "done"]_vars

\* C20: reconciling a response changes no field of a record that is already
\* completed (and neither drops nor moves it), also when the response has a
\* result of that record's filename with another score.
C20_CompletedUntouched ==
    [][\A p \in 1..Len(pollers) :
          (Answered(p) /\ pollers'[p].outcome \in JobStates) =>
              /\ Len(store') = Len(store)
              /\ \A i \in 1..Len(store) :
                    store[i].status = "completed" => store'[i] = store[i]]_vars

\* a.pdf was completed with score 65 by the first poll, and the second poll
\* of the job was answered failed while b.pdf is still processing
C20_Witness ==
    \E p \in 1..Len(pollers) :
        /\ pollers[p].attempts = 2
        /\ pollers[p].outcome = "failed"
        /\ pollers[p].pc = "done"
        /\ \E i \in 1..Len(store) :
              /\ IsCompletedOf(store[i], pollers[p].job)
              /\ store[i].fileName = "a.pdf"
              /\ store[i].score = 65
        /\ HasProcessing(store, pollers[p].job)

\* C21: reconciling a response for job J leaves every record of another job
\* and every record without a jobId unchanged, and neither adds, removes nor
\* reorders records.
C21_OtherRecordsUntouched ==
    [][\A p \in 1..Len(pollers) :
          (Answered(p) /\ pollers'[p].outcome \in JobStates) =>
              /\ Len(store') = Len(store)
              /\ \A i \in 1..Len(store) :
                    /\ store'[i].uid = store[i].uid
                    /\ store[i].jobId # pollers[p].job => store'[i] = store[i]]_vars

\* job 1 was reported completed after the user deleted one of its two
\* placeholders: its other record is completed, the records of job 2 and
\* the single analysis are as they were
C21_Witness ==
    /\ Len(pollers) = 2
    /\ pollers[1].outcome = "completed"
    /\ pollers[2].outcome = "none"
    /\ deletes = 1
    /\ Len(JobRecords(store, 1)) = 1
    /\ ~HasProcessing(store, 1)
    /\ JobRecords(store, 2) = placeholders(<<"a.pdf", "b.pdf">>, 2)
    /\ JobRecords(store, NoJob) = <<Rec(TsId(1), NoJob, "a.pdf", "completed", 80)>>

HasRecordNamed(s, jobId, f) ==
    \E i \in 1..Len(s) : s[i].jobId = jobId /\ s[i].fileName = f

\* C22: whatever the job status of the response, a result with no record of
\* exactly its filename under the job is assigned to the first processing
\* placeholder of the job in store order (here for responses of one result).
C22_FallbackInAnyStatus ==
    [][\A p \in 1..Len(pollers) : \A status \in {"processing", "completed"} :
          \A r \in Results :
             (/\ ~HasRecordNamed(store, pollers[p].job, r.filename)
              /\ HasProcessing(store, pollers[p].job)
              /\ PollResponse(p, status, TRUE, <<r>>))
             => LET i == processingEntry(store, pollers[p].job)
                IN  /\ store'[i].status = "completed"
                    /\ store'[i].score = r.overall_score]_vars

\* C23: a processing record becomes completed only in a step that reconciles
\* a status response for its job, so every completed record of a job carries
\* the overall_score of a reported result.
C23_CompletedOnlyByReconcile ==
    [][\A i \in 1..Len(store') :
          /\ (/\ store'[i].status = "completed"
              /\ \E k \in 1..Len(store) :
                    store[k].uid = store'[i].uid /\ store[k].status = "processing")
             => \E p \in 1..Len(pollers) :
                    /\ pollers[p].job = store'[i].jobId
                    /\ Answered(p)
                    /\ pollers'[p].outcome \in JobStates
          /\ (store'[i].status = "completed" /\ store'[i].jobId # NoJob)
             => store'[i].score \in Scores]_vars

\* C24: in every reachable state no two records of the store have the same
\* id, whatever the file names of a batch.
C24_IdsUnique ==
    \A i, k \in 1..Len(store) : store[i].id = store[k].id => i = k

\* C25: a record's fileName is the name of the file as submitted: no step,
\* and in particular no reconciliation on the exact-match or the forced-match
\* path, changes the fileName of a record that stays in the store.
C25_FileNameKept ==
    [][\A i \in 1..Len(store) : \A k \in 1..Len(store') :
          store[i].uid = store'[k].uid => store'[k].fileName = store[i].fileName]_vars

\* C28: within one reconciliation each result entry of the response is
\* applied to at most one record, so one answered poll completes at most as
\* many processing records as the response has result entries.
C28_OneRecordPerResult ==
    [][\A p \in 1..Len(pollers) : \A status \in JobStates : \A results \in ResultLists :
          (/\ pollers[p].pc = "fetch"
           /\ PollResponse(p, status, TRUE, results))
          => Cardinality({u \in CompletedUids(store') : u \notin CompletedUids(store)})
                <= Len(results)]_vars

\* C27: whenever reconciliation completes a placeholder from a result r, on
\* either path, the candidateName is r.candidate_name if non-empty, else the
\* heuristic name of r.filename if there is one, else r.filename without its
\* extension and with '-' and '_' replaced by spaces if non-empty, else
\* "Unknown Candidate"; it is never empty.
C27_CandidateNameResolved ==
    derived # NoCall =>
        LET r == derived[2]
            stripped == replaceSeparators(nameWithoutExt(r.filename))
        IN  /\ derived[3] # <<>>
            /\ derived[3] =
                 IF r.candidate_name # <<>> THEN r.candidate_name
                 ELSE IF extractNameFromFilename(r.filename) # null
                      THEN extractNameFromFilename(r.filename)
                      ELSE IF stripped # <<>> THEN stripped
                           ELSE UnknownCandidate

\* the job of record i was reported failed and the record is still processing
LeftByFailedJob(i) ==
    /\ store[i].status = "processing"
    /\ store[i].jobId # NoJob
    /\ \E p \in 1..Len(pollers) :
          pollers[p].job = store[i].jobId /\ pollers[p].outcome = "failed"

\* the step removes or changes record i
Touched(i) == ~ \E k \in 1..Len(store') : store'[k] = store[i]

\* a poll of the job is answered, the user deletes, or the history page
\* cleans up
TouchedAsListed(jobId) ==
    \/ \E p \in 1..Len(pollers) : pollers[p].job = jobId /\ Answered(p)
    \/ deletes' = deletes + 1
    \/ \E aged \in Jobs : loadHistoryData(aged)

\* a submission is stored and pushes the oldest records past the cap
Evicted == upload # NoUpload /\ upload' = NoUpload /\ Len(store') = StoreCap

\* no record is stored with status failed, and a response that reports the
\* job failed leaves the records without a result of their name as they were
FailedLeavesProcessing ==
    /\ \A i \in 1..Len(store') : store'[i].status \in {"processing", "completed"}
    /\ \A p \in 1..Len(pollers) :
          (Answered(p) /\ pollers'[p].outcome = "failed")
          => \A results \in PartialResultLists :
                PollResponse(p, "failed", TRUE, results)
                => /\ Len(store') = Len(store)
                   /\ \A i \in 1..Len(store) :
                         (IsProcessingOf(store[i], pollers[p].job)
                             /\ ~HasMatch(results, store[i].fileName))
                         => store'[i] = store[i]

\* C29: no operation stores a record with status failed; when a job is
\* reported failed its records without a result in the response stay
\* processing and unchanged, and afterwards only a later poller, a user
\* deletion or the history clean-up removes or changes them.
C29_FailedStaysUntilTouched ==
    [][/\ FailedLeavesProcessing
       /\ \A i \in 1..Len(store) :
             (store' # store /\ LeftByFailedJob(i) /\ Touched(i))
             => TouchedAsListed(store[i].jobId)]_vars

\* C29, with the eviction of the oldest records by a later submission added
\* to what may remove such a record.
C29_FailedStaysUntilTouchedOrEvicted ==
    [][/\ FailedLeavesProcessing
       /\ \A i \in 1..Len(store) :
             (store' # store /\ LeftByFailedJob(i) /\ Touched(i))
             => (TouchedAsListed(store[i].jobId) \/ Evicted)]_vars

\* a job was reported failed with a result for one file only, and a record
\* of it without a result is still processing
C29_Witness ==
    \E i, k \in 1..Len(store) :
        /\ LeftByFailedJob(i)
        /\ store[k].jobId = store[i].jobId
        /\ store[k].status = "completed"

\* C30: the recheck of processing records on dashboard load never writes the
\* store; an answer starts a poller for the record's jobId only when it is OK
\* with a non-empty results list, and after any other answer (not found, an
\* error, OK without results) no poller is started and the placeholders stay
\* in the store as processing.
C30_RecheckStartsPollerOnlyOnResults ==
    [][/\ rechecks' # rechecks => store' = store
       /\ \A j \in Jobs : \A ok, hasResults \in BOOLEAN :
             (/\ rechecks[j] > 0
              /\ RecheckAnswered(j, ok, hasResults))
             => /\ store' = store
                /\ IF ok /\ hasResults
                   THEN pollers' = Append(pollers, NewPoller(j))
                   ELSE /\ pollers' = pollers
                        /\ \A i \in 1..Len(store) :
                              IsProcessingOf(store[i], j)
                              => IsProcessingOf(store'[i], j)]_vars

\* both placeholders of job 1 were rechecked on load: one answer carried
\* results and restarted polling, the other fetch is still in flight
C30_Witness ==
    /\ Len(Processing(store)) = 2
    /\ rechecks[1] = 1
    /\ Len(pollers) = 2
    /\ pollers[2] = NewPoller(1)

Uids(s) == {s[i].uid : i \in 1..Len(s)}

\* C26: handlers interleave at every await and timer, yet every write is
\* based on the store as it is at the write, so no update is lost: a record
\* appears only with the submission that creates it, disappears only by the
\* deletion of its id, the clean-up of its job or eviction past the cap,
\* and a completed record stays as it was completed.
C26_NoLostUpdate ==
    [][store' # store =>
         /\ \A k \in 1..Len(store') :
               store'[k].uid \notin Uids(store)
               => /\ upload # NoUpload /\ upload' = NoUpload
                  /\ \/ store'[k].uid = TsId(clock)
                     \/ \E n \in 1..Len(upload) :
                           store'[k].uid = PlaceholderId(nextJob, n - 1)
         /\ \A i \in 1..Len(store) :
               store[i].uid \notin Uids(store')
               => \/ deletes' = deletes + 1
                  \/ \E p \in 1..Len(pollers) :
                        /\ pollers[p].job = store[i].jobId
                        /\ Answered(p)
                        /\ pollers'[p].outcome = "notFound"
                  \/ upload # NoUpload /\ upload' = NoUpload /\ Len(store') = StoreCap
         /\ \A i \in 1..Len(store) : \A k \in 1..Len(store') :
               (store[i].uid = store'[k].uid /\ store[i].status = "completed")
               => store'[k] = store[i]]_vars

\* a handler wrote the store after another writer had written between its
\* request and its write, and a deletion, a submission and a reconciliation
\* have all taken effect
C26_Witness ==
    /\ derived.crossed
    /\ deletes = 1
    /\ \E i \in 1..Len(store) : store[i].jobId = 2
    /\ \E i \in 1..Len(store) : IsCompletedOf(store[i], 1)

====
